---- MODULE Spec2Model ----
(***************************************************************************)
(* Model of src/dashboard.js: the OnionDashboard controller (chart, KPI    *)
(* tiles, recent-data table, alert list, toasts, two repeating timers,     *)
(* debounced filter changes, preset time-range badges) and the page-level  *)
(* button loading-state click handler.                                     *)
(*                                                                         *)
(* A network call is one in-flight entry from the moment fetch() is issued *)
(* until its promise chain settles.  The handler reads and writes nothing  *)
(* between `await fetch` and `await response.json()`, so the two awaits    *)
(* are settled in one step.  JavaScript runs every handler to completion,  *)
(* so each handler (up to its first await) and each continuation is one    *)
(* action.                                                                 *)
(***************************************************************************)
EXTENDS Integers, Sequences, FiniteSets, TLC

\* ---------------------------------------------------------------- bounds
MaxInFlight == 2        \* at most this many overlapping network calls
MaxPending  == 2        \* at most this many scheduled debounce timeouts
TimeSteps   == 5        \* the debounce wait is observed in this many steps
MaxStale    == 1        \* at most this many pending timeouts of replaced toasts
DaySpan     == 2        \* instants range over this many days
MaxOffset   == 14       \* local-time offsets range over -12 .. MaxOffset hours

\* ------------------------------------------------------ program constants
DebounceWait == 500     \* ms, bindEvents
DefaultRange == 30      \* days, setDefaultDates
KpiTiles     == 4       \* .kpi-value elements required by updateKPIs

\* --------------------------------------------------------- value encoding
Null     == 0           \* a timer field holding null
JsNull   == -1          \* a null entry of a numeric series (prices are >= 0)
NoDate   == -1          \* the empty string in a date control
TemplateDate == NoDate  \* a date control before setDefaultDates writes it
TemplateProvince == "all"   \* the province selected in the served page
BaseDay  == 100         \* day number of the first modelled day
HoursPerDay == 24

TimeStep == DebounceWait \div TimeSteps

Min(a, b) == IF a < b THEN a ELSE b
Max(a, b) == IF a > b THEN a ELSE b

\* JSON objects are functions from field names; an absent field is a name
\* outside the domain.
EmptyObj == [f \in {} |-> 0]
Has(o, f) == f \in DOMAIN o

\* `o.f || []` for an array-valued field (arrays are always truthy)
OrEmptyArray(o, f) == IF Has(o, f) THEN o[f] ELSE <<>>
\* `o.f || 0` for a numeric field
OrZero(o, f) == IF Has(o, f) /\ o[f] # 0 THEN o[f] ELSE 0
\* `o.f || 'N/A'` for a string field
OrNA(o, f) == IF Has(o, f) /\ o[f] # "" THEN o[f] ELSE "N/A"
\* `if (data.error)`: the truthiness of a string-valued error field
ErrorTruthy(o) == Has(o, "error") /\ o["error"] # ""

\* new Intl.NumberFormat('id-ID').format(n) for a non-negative integer:
\* decimal digits grouped in threes with "."
Pad3(n) ==
    IF n < 10 THEN "00" \o ToString(n)
    ELSE IF n < 100 THEN "0" \o ToString(n)
    ELSE ToString(n)

RECURSIVE FormatID(_)
FormatID(n) ==
    IF n < 1000 THEN ToString(n)
    ELSE FormatID(n \div 1000) \o "." \o Pad3(n % 1000)

\* ------------------------------------------------ responses of the server
\* /api/chart_data bodies
ChartBodies ==
    { [labels |-> <<"A", "B">>, actual |-> <<1, 2>>, predicted |-> <<1, JsNull>>],
      [actual |-> <<3>>],
      [error |-> "x", labels |-> <<"Z">>, actual |-> <<9>>, predicted |-> <<9>>],
      [error |-> "", labels |-> <<"E">>, actual |-> <<5>>, predicted |-> <<5>>] }

\* /api/update_filters bodies
FilterBodies ==
    { [kpis |-> [total_records |-> 12, price_volatility |-> 5,
                 avg_price |-> 32500, prediction_accuracy |-> 97],
       recent_data |-> << [Date |-> "d1", Provinsi |-> "Aceh", Harga |-> 32500] >>,
       alerts |-> << [type |-> "High", message |-> "m", price |-> 40000, date |-> "d1"] >>],
      [kpis |-> EmptyObj, recent_data |-> <<>>, alerts |-> <<>>],
      [recent_data |-> << [Date |-> "d2"] >>],
      [error |-> "x", kpis |-> EmptyObj],
      [error |-> "", kpis |-> EmptyObj] }

\* a null entry of an array of objects: reading a property of it throws
NullRow == [null |-> TRUE]

\* /api/update_filters bodies whose rendering throws half-way
ThrowingBodies ==
    { [kpis |-> [total_records |-> 12, price_volatility |-> 5,
                 avg_price |-> 32500, prediction_accuracy |-> 97],
       recent_data |-> << NullRow >>,
       alerts |-> << [type |-> "High", message |-> "m", price |-> 40000, date |-> "d1"] >>],
      [kpis |-> EmptyObj,
       recent_data |-> << [Date |-> "d1", Provinsi |-> "Aceh", Harga |-> 32500] >>,
       alerts |-> << NullRow >>] }

AllFilterBodies == FilterBodies \cup ThrowingBodies

\* How a network call settles: the fetch promise rejects, the status is not
\* ok, the body is not JSON, or a body arrives.
Failures == {"reject", "status", "malformed"}

Provinces == {"", "all", "Aceh"}
Badges == {"Last Hour", "Last 24h", "Custom"}
Controls == {"province", "startDate", "endDate"}

VARIABLES
    chart,            \* this.chart.data: labels and the two datasets
    chartLoading,     \* .chart-container carries class "loading"
    kpiValues,        \* textContent of the .kpi-value elements
    dataTable,        \* rows of #dataTable
    alertsBox,        \* items of .alerts-card .card-body
    inflight,         \* network calls awaiting their response, in issue order
    isMonitoring,     \* this.isMonitoring
    realTimeInterval, \* this.realTimeInterval (timer id or Null)
    refreshInterval,  \* this.refreshInterval (timer id or Null)
    timers,           \* the browser's active setInterval timers
    pauseBtn,         \* #pauseDetection: innerHTML, disabled, saved text
    toast,            \* the .notification-alert elements attached to the body
    staleTimers,      \* pending auto-remove timeouts of elements already detached
    shown,            \* categories passed to showNotification by the last step
    province,         \* #provinceFilter value
    startDate,        \* #startDate value (day number or NoDate)
    endDate,          \* #endDate value (day number or NoDate)
    activeBadge,      \* the .time-filter badge carrying bg-primary
    now,              \* current instant, hours (UTC)
    tz,               \* local-time offset from UTC, hours
    debounceTimers,   \* remaining ms of each scheduled debounce timeout
    sinceChange,      \* ms since the last change event (saturates at the wait)
    lastOk            \* last chart response that settled successfully

vars == << chart, chartLoading, kpiValues, dataTable, alertsBox, inflight,
           isMonitoring, realTimeInterval, refreshInterval, timers, pauseBtn,
           toast, staleTimers, shown, province, startDate, endDate, activeBadge,
           now, tz,
           debounceTimers, sinceChange, lastOk >>

uiVars     == << kpiValues, dataTable, alertsBox >>
timerVars  == << isMonitoring, realTimeInterval, refreshInterval, timers >>
filterVars == << province, startDate, endDate, activeBadge >>
clockVars  == << now, tz >>
bounceVars == << debounceTimers, sinceChange >>
toastVars  == << toast, staleTimers >>

\* ------------------------------------------------------------------ dates
\* new Date(): the instant; getDate()/getHours() read local fields
LocalDay(t, z)  == (t + z) \div HoursPerDay
LocalHour(t, z) == (t + z) % HoursPerDay
\* toISOString().split('T')[0]: the UTC calendar date
IsoDate(t) == t \div HoursPerDay
\* d.setDate(e.getDate() - k): local day moved back, local time of day kept
SetDateBack(t, z, k) == ((LocalDay(t, z) - k) * HoursPerDay + LocalHour(t, z)) - z
\* d.setHours(e.getHours() - k): local hour moved back
SetHoursBack(t, z, k) == (LocalDay(t, z) * HoursPerDay + (LocalHour(t, z) - k)) - z

\* ----------------------------------------------------------------- timers
TimerIds == {t.id : t \in timers}
ActiveOf(tm, kind) == {t \in tm : t.kind = kind}

\* setInterval: a handle not in use by an active timer
FreshId(tm) == CHOOSE i \in 1..(Cardinality(tm) + 1) : i \notin {t.id : t \in tm}
\* clearInterval(id)
ClearInterval(tm, id) == {t \in tm : t.id # id}

\* stopAutoRefresh / stopRealTimeUpdates: result [timers, field]
\* (variant: the field is reset but the interval is left running)
StopAutoRefresh_NoClear(tm, ri) == [timers |-> tm, field |-> Null]

StopAutoRefresh(tm, ri) ==
    IF ri # Null THEN [timers |-> ClearInterval(tm, ri), field |-> Null]
    ELSE [timers |-> tm, field |-> ri]

StartAutoRefresh(tm, ri) ==
    LET s == StopAutoRefresh(tm, ri)
        id == FreshId(s.timers)
    IN [timers |-> s.timers \cup {[id |-> id, kind |-> "refresh"]}, field |-> id]

\* (variant: the field is reset but the interval is left running)
StopRealTimeUpdates_NoClear(tm, rt) == [timers |-> tm, field |-> Null]

StopRealTimeUpdates(tm, rt) ==
    IF rt # Null THEN [timers |-> ClearInterval(tm, rt), field |-> Null]
    ELSE [timers |-> tm, field |-> rt]

StartRealTimeUpdates(tm, rt) ==
    LET id == FreshId(tm)
    IN [timers |-> tm \cup {[id |-> id, kind |-> "realTime"]}, field |-> id]

\* updateDateTime: a one-second interval whose handle is not kept
UpdateDateTime(tm) == tm \cup {[id |-> FreshId(tm), kind |-> "dateTime"]}

\* -------------------------------------------------------------- rendering
EmptyChart == [labels |-> <<>>, actual |-> <<>>, predicted |-> <<>>]

\* (variant: null entries are dropped from the predicted series)
ChartDataOf_NoNull(data) ==
    [labels    |-> OrEmptyArray(data, "labels"),
     actual    |-> OrEmptyArray(data, "actual"),
     predicted |-> SelectSeq(OrEmptyArray(data, "predicted"), LAMBDA v : v # JsNull)]

\* loadChartData, lines 211-213
ChartDataOf(data) ==
    [labels    |-> OrEmptyArray(data, "labels"),
     actual    |-> OrEmptyArray(data, "actual"),
     predicted |-> OrEmptyArray(data, "predicted")]

\* (variant: a tile whose field is missing keeps its previous text)
UpdateKPIs_Merge(tiles, data) ==
    IF ~Has(data, "kpis") THEN tiles
    ELSE [tiles EXCEPT
            ![1] = IF Has(data.kpis, "total_records")
                   THEN ToString(OrZero(data.kpis, "total_records")) ELSE @,
            ![2] = IF Has(data.kpis, "price_volatility")
                   THEN ToString(OrZero(data.kpis, "price_volatility")) \o "%" ELSE @,
            ![3] = IF Has(data.kpis, "avg_price")
                   THEN "Rp" \o FormatID(OrZero(data.kpis, "avg_price")) ELSE @,
            ![4] = IF Has(data.kpis, "prediction_accuracy")
                   THEN ToString(OrZero(data.kpis, "prediction_accuracy")) \o "%" ELSE @]

\* (variant: an empty kpis object is treated like a missing one)
UpdateKPIs_EmptyIsFalsy(tiles, data) ==
    IF ~Has(data, "kpis") \/ DOMAIN data.kpis = {} THEN tiles
    ELSE [tiles EXCEPT
            ![1] = ToString(OrZero(data.kpis, "total_records")),
            ![2] = ToString(OrZero(data.kpis, "price_volatility")) \o "%",
            ![3] = "Rp" \o FormatID(OrZero(data.kpis, "avg_price")),
            ![4] = ToString(OrZero(data.kpis, "prediction_accuracy")) \o "%"]

\* updateKPIs
UpdateKPIs(tiles, data) ==
    IF ~Has(data, "kpis") THEN tiles
    ELSE IF Len(tiles) >= KpiTiles THEN
        [tiles EXCEPT
            ![1] = ToString(OrZero(data.kpis, "total_records")),
            ![2] = ToString(OrZero(data.kpis, "price_volatility")) \o "%",
            ![3] = "Rp" \o FormatID(OrZero(data.kpis, "avg_price")),
            ![4] = ToString(OrZero(data.kpis, "prediction_accuracy")) \o "%"]
    ELSE tiles

NoDataRow == << "No data available" >>

TableRow(row) ==
    << OrNA(row, "Date"), OrNA(row, "Provinsi"),
       "Rp" \o (IF Has(row, "Harga") /\ row["Harga"] # 0
                THEN FormatID(row["Harga"]) ELSE "N/A"),
       "Normal" >>

\* updateDataTable
UpdateDataTable(data) ==
    LET rows == OrEmptyArray(data, "recent_data")
    IN IF Len(rows) = 0 THEN << NoDataRow >>
       ELSE [i \in 1..Len(rows) |-> TableRow(rows[i])]

NoAlerts == << "No recent alerts. System operating normally." >>

AlertItem(a) ==
    << IF a.type = "High" THEN "danger" ELSE "warning",
       a.type \o " Confidence: " \o a.message,
       "Price: Rp" \o FormatID(a.price) \o " - " \o a.date >>

\* updateAlerts
UpdateAlerts(data) ==
    LET as == OrEmptyArray(data, "alerts")
    IN IF Len(as) = 0 THEN << NoAlerts >>
       ELSE [i \in 1..Len(as) |-> AlertItem(as[i])]

\* recentData.map / alerts.map read a property of every entry
HasNull(rows) == \E k \in 1..Len(rows) : rows[k] = NullRow
TableThrows(data) == HasNull(OrEmptyArray(data, "recent_data"))
AlertsThrow(data) == HasNull(OrEmptyArray(data, "alerts"))

\* (variant: the alert list is rewritten before the table)
RenderResponse_AlertsFirst(tiles, table, alerts, data) ==
    LET k == UpdateKPIs(tiles, data)
    IN IF AlertsThrow(data)
       THEN [tiles |-> k, table |-> table, alerts |-> alerts, done |-> FALSE]
       ELSE IF TableThrows(data)
       THEN [tiles |-> k, table |-> table, alerts |-> UpdateAlerts(data),
             done |-> FALSE]
       ELSE [tiles |-> k, table |-> UpdateDataTable(data),
             alerts |-> UpdateAlerts(data), done |-> TRUE]

\* updateFilters, lines 262-268: updateKPIs, then updateDataTable, then
\* updateAlerts; an exception thrown by one of them leaves the later ones
\* undone (done = FALSE) and control passes to the catch block
RenderResponse(tiles, table, alerts, data) ==
    LET k == UpdateKPIs(tiles, data)
    IN IF TableThrows(data)
       THEN [tiles |-> k, table |-> table, alerts |-> alerts, done |-> FALSE]
       ELSE IF AlertsThrow(data)
       THEN [tiles |-> k, table |-> UpdateDataTable(data), alerts |-> alerts,
             done |-> FALSE]
       ELSE [tiles |-> k, table |-> UpdateDataTable(data),
             alerts |-> UpdateAlerts(data), done |-> TRUE]

\* the server-rendered page before any update-filters response
InitialTiles  == << "-", "-", "-", "-" >>
InitialTable  == << << "template" >> >>
InitialAlerts == << << "template" >> >>

\* --------------------------------------------------------- network helpers
\* URLSearchParams built from the three control values
QueryOf(p, s, e, withProvince) ==
    [f \in (IF withProvince THEN {"province"} ELSE {})
            \cup (IF s # NoDate THEN {"start_date"} ELSE {})
            \cup (IF e # NoDate THEN {"end_date"} ELSE {}) |->
        IF f = "province" THEN p ELSE IF f = "start_date" THEN s ELSE e]

\* loadChartData, lines 191-194
ChartParams(p, s, e) == QueryOf(p, s, e, p # "" /\ p # "all")

\* (variant: the check against 'all' is missing)
FilterParams_SendsAll(p, s, e) == QueryOf(p, s, e, p # "")

\* updateFilters, lines 242-245
FilterParams(p, s, e) == QueryOf(p, s, e, p # "" /\ p # "all")

ChartReq(p, s, e) ==
    [kind |-> "chart", overtaken |-> FALSE, params |-> ChartParams(p, s, e)]
FiltersReq(p, s, e) ==
    [kind |-> "filters", overtaken |-> FALSE, params |-> FilterParams(p, s, e)]

Room(k) == Len(inflight) + k <= MaxInFlight

RemoveAt(s, i) == [j \in 1..(Len(s) - 1) |-> IF j < i THEN s[j] ELSE s[j + 1]]

\* chart calls issued before call i are marked once call i has been applied
MarkOvertaken(s, i) ==
    [j \in 1..Len(s) |->
        IF j < i /\ s[j].kind = "chart" THEN [s[j] EXCEPT !.overtaken = TRUE]
        ELSE s[j]]

\* ---------------------------------------------------------------- initial
\* (variant: setDefaultDates runs before initChart)
InitAt_DatesFirst(t, z) ==
    LET a == StartAutoRefresh({}, Null)
    IN /\ chart = EmptyChart
       /\ chartLoading = TRUE
       /\ kpiValues = InitialTiles
       /\ dataTable = InitialTable
       /\ alertsBox = InitialAlerts
       /\ inflight = << ChartReq(TemplateProvince, IsoDate(SetDateBack(t, z, DefaultRange)),
                                 IsoDate(t)) >>
       /\ isMonitoring = FALSE
       /\ realTimeInterval = Null
       /\ refreshInterval = a.field
       /\ timers = UpdateDateTime(a.timers)
       /\ pauseBtn = [html |-> "Pause Detection", disabled |-> FALSE, saved |-> ""]
       /\ toast = <<>>
       /\ staleTimers = 0
       /\ shown = <<>>
       /\ province = TemplateProvince
       /\ startDate = IsoDate(SetDateBack(t, z, DefaultRange))
       /\ endDate = IsoDate(t)
       /\ activeBadge = "none"
       /\ now = t
       /\ tz = z
       /\ debounceTimers = <<>>
       /\ sinceChange = DebounceWait
       /\ lastOk = [valid |-> FALSE, body |-> EmptyObj, late |-> FALSE]

\* constructor + init(): initChart (which issues the first chart call from
\* the controls as the page was served), bindEvents, startAutoRefresh,
\* updateDateTime, setDefaultDates
InitAt(t, z) ==
    LET a == StartAutoRefresh({}, Null)
    IN /\ chart = EmptyChart
       /\ chartLoading = TRUE
       /\ kpiValues = InitialTiles
       /\ dataTable = InitialTable
       /\ alertsBox = InitialAlerts
       /\ inflight = << ChartReq(TemplateProvince, TemplateDate, TemplateDate) >>
       /\ isMonitoring = FALSE
       /\ realTimeInterval = Null
       /\ refreshInterval = a.field
       /\ timers = UpdateDateTime(a.timers)
       /\ pauseBtn = [html |-> "Pause Detection", disabled |-> FALSE, saved |-> ""]
       /\ toast = <<>>
       /\ staleTimers = 0
       /\ shown = <<>>
       /\ province = TemplateProvince
       /\ startDate = IsoDate(SetDateBack(t, z, DefaultRange))
       /\ endDate = IsoDate(t)
       /\ activeBadge = "none"
       /\ now = t
       /\ tz = z
       /\ debounceTimers = <<>>
       /\ sinceChange = DebounceWait
       /\ lastOk = [valid |-> FALSE, body |-> EmptyObj, late |-> FALSE]

Noon == BaseDay * HoursPerDay + 12

Init == InitAt(Noon, 0)

\* ------------------------------------------------------------ loadChartData
\* loadChartData up to `await fetch`: mark the container, issue the call
IssueChart(q, p, s, e) == Append(q, ChartReq(p, s, e))

\* (variant: a response overtaken by a later-issued call is discarded)
ChartAfter_Sequenced(cur, req, data) ==
    IF ErrorTruthy(data) \/ req.overtaken THEN cur ELSE ChartDataOf(data)

\* the chart after a body has been processed (lines 204-213); req is the
\* call the body answers, which the code never consults
ChartAfter(cur, req, data) ==
    IF ErrorTruthy(data) THEN cur ELSE ChartDataOf(data)

\* (variant: an error body is only logged)
ChartToasts_Silent(data) == <<>>

\* categories of the toasts loadChartData shows for a body
ChartToasts(data) == IF ErrorTruthy(data) THEN << "danger" >> ELSE <<>>

\* showNotification: every attached .notification-alert is removed, then the
\* new element is appended; gen tells the new element from the one it
\* replaces
ToastAfter(cur, cats) ==
    IF cats = <<>> THEN cur
    ELSE << [cat |-> cats[Len(cats)],
             gen |-> IF cur = <<>> THEN 0 ELSE 1 - cur[Len(cur)].gen] >>

\* elements detached by showNotification; their timeouts stay scheduled
Detached(cur, nxt, cats) == Len(cur) + Len(cats) - Len(nxt)

\* room for the timeouts of the elements a handler showing cats detaches
ShowRoom(cats) == cats = <<>> \/ staleTimers + Len(toast) <= MaxStale

\* #refreshChart click
RefreshClick ==
    /\ Room(1)
    /\ inflight' = IssueChart(inflight, province, startDate, endDate)
    /\ chartLoading' = TRUE
    /\ shown' = <<>>
    /\ UNCHANGED << chart, uiVars, timerVars, pauseBtn, toastVars, filterVars,
                    clockVars, bounceVars, lastOk >>

\* a tick of the 60-second interval set by startAutoRefresh
AutoRefreshTick ==
    /\ ActiveOf(timers, "refresh") # {}
    /\ Room(1)
    /\ inflight' = IssueChart(inflight, province, startDate, endDate)
    /\ chartLoading' = TRUE
    /\ shown' = <<>>
    /\ UNCHANGED << chart, uiVars, timerVars, pauseBtn, toastVars, filterVars,
                    clockVars, bounceVars, lastOk >>

\* the marker after loadChartData has left its try statement
MarkerAfter_WhileOthers(q) == \E k \in 1..Len(q) : q[k].kind = "chart"

\* finally: showChartLoading(false), whatever is still in flight
MarkerAfter(q) == FALSE

\* a chart call fails: fetch rejects, status not ok, or json() rejects;
\* the catch block shows one error toast, finally clears the marker
ChartSettleFail(i, how) ==
    /\ i \in 1..Len(inflight)
    /\ inflight[i].kind = "chart"
    /\ how \in Failures
    /\ ShowRoom(<< "danger" >>)
    /\ inflight' = RemoveAt(inflight, i)
    /\ chartLoading' = MarkerAfter(inflight')
    /\ shown' = << "danger" >>
    /\ toast' = ToastAfter(toast, shown')
    /\ staleTimers' = staleTimers + Detached(toast, toast', shown')
    /\ UNCHANGED << chart, uiVars, timerVars, pauseBtn, filterVars,
                    clockVars, bounceVars, lastOk >>

\* a chart call receives a JSON body with an ok status
ChartSettleBody(i, data) ==
    /\ i \in 1..Len(inflight)
    /\ inflight[i].kind = "chart"
    /\ data \in ChartBodies
    /\ ShowRoom(ChartToasts(data))
    /\ chart' = ChartAfter(chart, inflight[i], data)
    /\ inflight' = IF ErrorTruthy(data) THEN RemoveAt(inflight, i)
                   ELSE RemoveAt(MarkOvertaken(inflight, i), i)
    /\ lastOk' = IF ErrorTruthy(data) THEN lastOk
                 ELSE [valid |-> TRUE, body |-> data, late |-> inflight[i].overtaken]
    /\ chartLoading' = MarkerAfter(inflight')
    /\ shown' = ChartToasts(data)
    /\ toast' = ToastAfter(toast, shown')
    /\ staleTimers' = staleTimers + Detached(toast, toast', shown')
    /\ UNCHANGED << uiVars, timerVars, pauseBtn, filterVars, clockVars, bounceVars >>

\* ------------------------------------------------------------ updateFilters
\* updateFilters up to `await fetch`
IssueFilters(q, p, s, e) == Append(q, FiltersReq(p, s, e))

\* does updateFilters treat the body as a success (line 255)
FiltersOk(data) == ~ErrorTruthy(data)

\* an update-filters call fails: one error toast, nothing else
FiltersSettleFail(i, how) ==
    /\ i \in 1..Len(inflight)
    /\ inflight[i].kind = "filters"
    /\ how \in Failures
    /\ ShowRoom(<< "danger" >>)
    /\ inflight' = RemoveAt(inflight, i)
    /\ shown' = << "danger" >>
    /\ toast' = ToastAfter(toast, shown')
    /\ staleTimers' = staleTimers + Detached(toast, toast', shown')
    /\ UNCHANGED << chart, chartLoading, uiVars, timerVars, pauseBtn, filterVars,
                    clockVars, bounceVars, lastOk >>

\* an update-filters call receives a JSON body with an ok status: on an
\* error body one error toast; otherwise KPI tiles, table and alerts are
\* rewritten in that order, then the chart reload is issued and the success
\* toast shown; an exception while rewriting ends in the catch block, which
\* shows one error toast
FiltersSettleBody(i, data) ==
    /\ i \in 1..Len(inflight)
    /\ inflight[i].kind = "filters"
    /\ data \in AllFilterBodies
    /\ ShowRoom(<< "success" >>)
    /\ IF FiltersOk(data)
       THEN LET r == RenderResponse(kpiValues, dataTable, alertsBox, data)
            IN /\ kpiValues' = r.tiles
               /\ dataTable' = r.table
               /\ alertsBox' = r.alerts
               /\ IF r.done
                  THEN /\ inflight' = IssueChart(RemoveAt(inflight, i),
                                                 province, startDate, endDate)
                       /\ chartLoading' = TRUE
                       /\ shown' = << "success" >>
                  ELSE /\ inflight' = RemoveAt(inflight, i)
                       /\ chartLoading' = chartLoading
                       /\ shown' = << "danger" >>
       ELSE /\ UNCHANGED << uiVars, chartLoading >>
            /\ inflight' = RemoveAt(inflight, i)
            /\ shown' = << "danger" >>
    /\ toast' = ToastAfter(toast, shown')
    /\ staleTimers' = staleTimers + Detached(toast, toast', shown')
    /\ UNCHANGED << chart, timerVars, pauseBtn, filterVars, clockVars,
                    bounceVars, lastOk >>

\* ------------------------------------------------------------------ timers
\* (variant: the tick reloads the chart only)
RealTimeTick_ChartOnly ==
    /\ ActiveOf(timers, "realTime") # {}
    /\ Room(2)
    /\ inflight' = IssueChart(inflight, province, startDate, endDate)
    /\ chartLoading' = TRUE
    /\ shown' = <<>>
    /\ UNCHANGED << chart, uiVars, timerVars, pauseBtn, toastVars, filterVars,
                    clockVars, bounceVars, lastOk >>

\* a tick of the 10-second interval set by startRealTimeUpdates
RealTimeTick ==
    /\ ActiveOf(timers, "realTime") # {}
    /\ Room(2)
    /\ inflight' = IssueFilters(IssueChart(inflight, province, startDate, endDate),
                                province, startDate, endDate)
    /\ chartLoading' = TRUE
    /\ shown' = <<>>
    /\ UNCHANGED << chart, uiVars, timerVars, pauseBtn, toastVars, filterVars,
                    clockVars, bounceVars, lastOk >>

\* (variant: stopping also aborts the calls in flight)
ToggleMonitoring_Abort ==
    LET r == IF ~isMonitoring
             THEN StartRealTimeUpdates(timers, realTimeInterval)
             ELSE StopRealTimeUpdates(timers, realTimeInterval)
    IN /\ ShowRoom(<< "success" >>)
       /\ isMonitoring' = ~isMonitoring
       /\ timers' = r.timers
       /\ realTimeInterval' = r.field
       /\ inflight' = IF isMonitoring THEN <<>> ELSE inflight
       /\ shown' = << "success" >>
       /\ toast' = ToastAfter(toast, shown')
       /\ staleTimers' = staleTimers + Detached(toast, toast', shown')
       /\ UNCHANGED << chart, chartLoading, uiVars, refreshInterval,
                       pauseBtn, filterVars, clockVars, bounceVars, lastOk >>

\* #startMonitoring click
ToggleMonitoring ==
    LET r == IF ~isMonitoring
             THEN StartRealTimeUpdates(timers, realTimeInterval)
             ELSE StopRealTimeUpdates(timers, realTimeInterval)
    IN /\ ShowRoom(<< "success" >>)
       /\ isMonitoring' = ~isMonitoring
       /\ timers' = r.timers
       /\ realTimeInterval' = r.field
       /\ shown' = << "success" >>
       /\ toast' = ToastAfter(toast, shown')
       /\ staleTimers' = staleTimers + Detached(toast, toast', shown')
       /\ UNCHANGED << chart, chartLoading, uiVars, inflight, refreshInterval,
                       pauseBtn, filterVars, clockVars, bounceVars, lastOk >>

\* btn.textContent.includes('Resume')
IsPaused(html) == html = "Resume Detection"

\* pauseMonitoring: the label it writes
PauseLabel(html) == IF IsPaused(html) THEN "Pause Detection" ELSE "Resume Detection"

\* (variant: pausing also stops the real-time timer)
PauseTimer_ClearAll(html, tm, ri) ==
    IF IsPaused(html) THEN StartAutoRefresh(tm, ri)
    ELSE [timers |-> {}, field |-> Null]

\* pauseMonitoring: what it does to the auto-refresh timer
PauseTimer(html, tm, ri) ==
    IF IsPaused(html) THEN StartAutoRefresh(tm, ri) ELSE StopAutoRefresh(tm, ri)

\* #pauseDetection click: pauseMonitoring runs first (bound in bindEvents),
\* then the page-level loading-state handler saves the label just written,
\* shows "Loading..." and disables the button; a disabled button receives
\* no click
PauseClick ==
    LET r == PauseTimer(pauseBtn.html, timers, refreshInterval)
    IN /\ ~pauseBtn.disabled
       /\ ShowRoom(<< "success" >>)
       /\ timers' = r.timers
       /\ refreshInterval' = r.field
       /\ pauseBtn' = [html |-> "Loading...", disabled |-> TRUE,
                       saved |-> PauseLabel(pauseBtn.html)]
       /\ shown' = << "success" >>
       /\ toast' = ToastAfter(toast, shown')
       /\ staleTimers' = staleTimers + Detached(toast, toast', shown')
       /\ UNCHANGED << chart, chartLoading, uiVars, inflight, isMonitoring,
                       realTimeInterval, filterVars, clockVars, bounceVars, lastOk >>

\* the 1500 ms timeout of the loading-state handler restores the button
PauseRestore ==
    /\ pauseBtn.disabled
    /\ pauseBtn' = [html |-> pauseBtn.saved, disabled |-> FALSE, saved |-> ""]
    /\ shown' = <<>>
    /\ UNCHANGED << chart, chartLoading, uiVars, inflight, timerVars, toastVars,
                    filterVars, clockVars, bounceVars, lastOk >>

\* the auto-remove timeout of an attached toast: its element is still in
\* the page, so it is removed
DismissToast ==
    /\ toast # <<>>
    /\ toast' = Tail(toast)
    /\ staleTimers' = staleTimers
    /\ shown' = <<>>
    /\ UNCHANGED << chart, chartLoading, uiVars, inflight, timerVars, pauseBtn,
                    filterVars, clockVars, bounceVars, lastOk >>

\* (variant: the timeout removes whatever toast is attached)
StaleEffect_RemovesCurrent(cur) == <<>>

\* what the timeout of a detached element does to the attached ones:
\* alertDiv.parentNode is null, so nothing is removed
StaleEffect(cur) == cur

\* the auto-remove timeout of an element that showNotification has replaced
StaleTimerFire ==
    /\ staleTimers > 0
    /\ staleTimers' = staleTimers - 1
    /\ toast' = StaleEffect(toast)
    /\ shown' = <<>>
    /\ UNCHANGED << chart, chartLoading, uiVars, inflight, timerVars, pauseBtn,
                    filterVars, clockVars, bounceVars, lastOk >>

\* ------------------------------------------------------------ time filters
\* the start date handleTimeFilter computes for a preset badge
PresetStart(b, t, z) ==
    IF b = "Last Hour" THEN IsoDate(SetHoursBack(t, z, 1))
    ELSE IsoDate(SetDateBack(t, z, 1))

PresetEnd(b, t, z) == IsoDate(t)

\* (variant: writing a date control fires its change listener)
HandleTimeFilter_FiresChange(b) ==
    /\ b \in Badges
    /\ activeBadge' = b
    /\ IF b \in {"Last Hour", "Last 24h"}
       THEN /\ Room(1)
            /\ startDate' = PresetStart(b, now, tz)
            /\ endDate' = PresetEnd(b, now, tz)
            /\ inflight' = IssueFilters(inflight, province, startDate', endDate')
            /\ debounceTimers' = Append(Append(debounceTimers, DebounceWait), DebounceWait)
            /\ sinceChange' = 0
       ELSE UNCHANGED << startDate, endDate, inflight, bounceVars >>
    /\ shown' = <<>>
    /\ UNCHANGED << chart, chartLoading, uiVars, timerVars, pauseBtn, toastVars,
                    province, clockVars, lastOk >>

\* click on a .time-filter badge
HandleTimeFilter(b) ==
    /\ b \in Badges
    /\ activeBadge' = b
    /\ IF b \in {"Last Hour", "Last 24h"}
       THEN /\ Room(1)
            /\ startDate' = PresetStart(b, now, tz)
            /\ endDate' = PresetEnd(b, now, tz)
            /\ inflight' = IssueFilters(inflight, province, startDate', endDate')
       ELSE UNCHANGED << startDate, endDate, inflight >>
    /\ shown' = <<>>
    /\ UNCHANGED << chart, chartLoading, uiVars, timerVars, pauseBtn, toastVars,
                    province, clockVars, bounceVars, lastOk >>

\* ---------------------------------------------------------------- debounce
\* a change event on a filter control: the listener builds a NEW debounced
\* function (its own `timeout` variable, still undefined) and calls it once,
\* so clearTimeout clears nothing and one more timeout is scheduled
ScheduleDebounce(pending) == Append(pending, DebounceWait)

\* the values a user can give a control
ControlValues(ctrl) ==
    IF ctrl = "province" THEN Provinces ELSE {NoDate, BaseDay}

FilterChange(ctrl, v) ==
    /\ Len(debounceTimers) < MaxPending
    /\ v \in ControlValues(ctrl)
    /\ province' = IF ctrl = "province" THEN v ELSE province
    /\ startDate' = IF ctrl = "startDate" THEN v ELSE startDate
    /\ endDate' = IF ctrl = "endDate" THEN v ELSE endDate
    /\ debounceTimers' = ScheduleDebounce(debounceTimers)
    /\ sinceChange' = 0
    /\ shown' = <<>>
    /\ UNCHANGED << chart, chartLoading, uiVars, inflight, timerVars, pauseBtn,
                    toastVars, activeBadge, clockVars, lastOk >>

\* time passes by one step while no scheduled timeout is due
AdvanceTime ==
    /\ \A k \in 1..Len(debounceTimers) : debounceTimers[k] > 0
    /\ debounceTimers # <<>> \/ sinceChange < DebounceWait
    /\ debounceTimers' = [k \in 1..Len(debounceTimers) |->
                              Max(0, debounceTimers[k] - TimeStep)]
    /\ sinceChange' = Min(DebounceWait, sinceChange + TimeStep)
    /\ shown' = <<>>
    /\ UNCHANGED << chart, chartLoading, uiVars, inflight, timerVars, pauseBtn,
                    toastVars, filterVars, clockVars, lastOk >>

\* a due timeout runs `later`: updateFilters is invoked
DebounceFire ==
    /\ debounceTimers # <<>>
    /\ Head(debounceTimers) = 0
    /\ Room(1)
    /\ debounceTimers' = Tail(debounceTimers)
    /\ inflight' = IssueFilters(inflight, province, startDate, endDate)
    /\ shown' = <<>>
    /\ UNCHANGED << chart, chartLoading, uiVars, timerVars, pauseBtn, toastVars,
                    filterVars, clockVars, sinceChange, lastOk >>

\* --------------------------------------------------------- specifications
\* Spec: the network calls, the two timers, the buttons and the toasts.
\* SpecRender: updateFilters from its request to the end of its rendering.
\* SpecDebounce: change events on the filter controls under passing time.
\* SpecDate: the preset badges at every instant and local-time offset.
Settle ==
    \E i \in 1..MaxInFlight :
        \/ \E how \in Failures : ChartSettleFail(i, how)
        \/ \E data \in ChartBodies : ChartSettleBody(i, data)
        \/ \E how \in Failures : FiltersSettleFail(i, how)
        \/ \E data \in FilterBodies : FiltersSettleBody(i, data)

Next ==
    \/ RefreshClick
    \/ AutoRefreshTick
    \/ RealTimeTick
    \/ Settle
    \/ ToggleMonitoring
    \/ PauseClick
    \/ PauseRestore
    \/ DismissToast
    \/ StaleTimerFire

Spec == Init /\ [][Next]_vars

\* change events on the filter controls, with the passage of time, and
\* clicks on the refresh button
NextDebounce ==
    \/ \E ctrl \in Controls : \E v \in ControlValues(ctrl) : FilterChange(ctrl, v)
    \/ AdvanceTime
    \/ DebounceFire
    \/ RefreshClick

SpecDebounce == Init /\ [][NextDebounce]_vars

\* Spec with the auto-remove timeout of an attached toast bound to run: a
\* timeout set by setTimeout fires once its delay has passed
SpecLive == Spec /\ WF_vars(DismissToast)

\* the steps of updateFilters, with responses whose rendering throws
NextRender ==
    \/ \E b \in Badges : HandleTimeFilter(b)
    \/ \E i \in 1..MaxInFlight :
          \/ \E data \in AllFilterBodies : FiltersSettleBody(i, data)
          \/ \E how \in Failures : FiltersSettleFail(i, how)
          \/ \E data \in ChartBodies : ChartSettleBody(i, data)
    \/ DismissToast
    \/ StaleTimerFire

SpecRender == Init /\ [][NextRender]_vars

\* the preset badges at every instant and local-time offset
Instants == (BaseDay * HoursPerDay)..((BaseDay + DaySpan) * HoursPerDay - 1)
Offsets  == (-12)..MaxOffset

InitDate == \E t \in Instants, z \in Offsets : InitAt(t, z)

NextDate == \E b \in Badges : HandleTimeFilter(b)

SpecDate == InitDate /\ [][NextDate]_vars

\* ================================================================== claims
Slots == 1..MaxInFlight

\* C1: for every chart-data response with an ok status and no `error`
\* field, once loadChartData has processed it the chart's labels, series 0
\* and series 1 equal the response's labels, actual and predicted element
\* for element (null entries included); an absent field gives an empty array.
C1_ChartEqualsResponse ==
    [][\A i \in Slots : \A data \in ChartBodies :
          (ChartSettleBody(i, data) /\ "error" \notin DOMAIN data) =>
              /\ chart'.labels =
                    (IF "labels" \in DOMAIN data THEN data.labels ELSE <<>>)
              /\ chart'.actual =
                    (IF "actual" \in DOMAIN data THEN data.actual ELSE <<>>)
              /\ chart'.predicted =
                    (IF "predicted" \in DOMAIN data THEN data.predicted ELSE <<>>)]_vars

\* a response with a null entry has been applied
C1_Witness ==
    /\ lastOk.valid
    /\ "error" \notin DOMAIN lastOk.body
    /\ chart.labels = << "A", "B" >>
    /\ chart.actual = << 1, 2 >>
    /\ chart.predicted = << 1, JsNull >>

\* C2: whenever loadChartData receives a response carrying an `error`
\* field, a non-success status or a transport failure, exactly one toast of
\* the error category is shown and the chart's labels and both series stay
\* as they were.
C2_ErrorLeavesChart ==
    [][\A i \in Slots :
          /\ \A how \in Failures :
                ChartSettleFail(i, how) =>
                    (/\ shown' = << "danger" >>
                     /\ Len(toast') = 1
                     /\ toast'[1].cat = "danger"
                     /\ chart' = chart)
          /\ \A data \in ChartBodies :
                (ChartSettleBody(i, data) /\ "error" \in DOMAIN data) =>
                    (/\ shown' = << "danger" >>
                     /\ Len(toast') = 1
                     /\ toast'[1].cat = "danger"
                     /\ chart' = chart)]_vars

\* the interval timers the controller keeps a handle to
HeldTimers(tm, ri, rt) == {t \in tm : t.id \in {ri, rt} \ {Null}}

\* C3 (as stated): after toggleMonitoring turns monitoring on the controller
\* holds exactly one active repeating timer, and after the toggle that turns
\* it off it holds none.
C3_OneThenZeroTimers ==
    [][/\ (~isMonitoring /\ isMonitoring') =>
              Cardinality(HeldTimers(timers', refreshInterval', realTimeInterval')) = 1
       /\ (isMonitoring /\ ~isMonitoring') =>
              Cardinality(HeldTimers(timers', refreshInterval', realTimeInterval')) = 0]_vars

\* C3 (amended): turning monitoring on leaves exactly one active real-time
\* timer, turning it off leaves none, and neither touches the auto-refresh
\* timer started by init; the controller therefore holds one timer more
\* than its auto-refresh timers while on, and only those after off.
C3_RealTimeTimerOnly ==
    [][/\ (~isMonitoring /\ isMonitoring') =>
              /\ Cardinality(ActiveOf(timers', "realTime")) = 1
              /\ ActiveOf(timers', "refresh") = ActiveOf(timers, "refresh")
              /\ refreshInterval' = refreshInterval
              /\ Cardinality(HeldTimers(timers', refreshInterval', realTimeInterval'))
                    = Cardinality(ActiveOf(timers, "refresh")) + 1
       /\ (isMonitoring /\ ~isMonitoring') =>
              /\ ActiveOf(timers', "realTime") = {}
              /\ realTimeInterval' = Null
              /\ ActiveOf(timers', "refresh") = ActiveOf(timers, "refresh")
              /\ refreshInterval' = refreshInterval
              /\ Cardinality(HeldTimers(timers', refreshInterval', realTimeInterval'))
                    = Cardinality(ActiveOf(timers, "refresh"))]_vars

\* monitoring is on next to the running auto-refresh timer: two held timers
C3_Witness ==
    /\ isMonitoring
    /\ Cardinality(ActiveOf(timers, "realTime")) = 1
    /\ Cardinality(HeldTimers(timers, refreshInterval, realTimeInterval)) = 2

\* C4: for a burst of change events, each less than 500 ms after the
\* previous one, updateFilters is invoked once, 500 ms after the last event:
\* a debounce timeout invokes it only when the quiet period has elapsed
\* since the last event, and no other invocation is then left pending.
C4_DebouncedOnce ==
    [][DebounceFire =>
          (sinceChange = DebounceWait /\ debounceTimers' = <<>>)]_vars

C6_FilterErrorLeavesUi ==
    [][\A i \in Slots :
          /\ \A how \in Failures :
                FiltersSettleFail(i, how) =>
                    /\ shown' = << "danger" >>
                    /\ inflight' = RemoveAt(inflight, i)
                    /\ UNCHANGED << kpiValues, dataTable, alertsBox, chart >>
          /\ \A data \in FilterBodies :
                (FiltersSettleBody(i, data) /\ "error" \in DOMAIN data) =>
                    /\ shown' = << "danger" >>
                    /\ inflight' = RemoveAt(inflight, i)
                    /\ UNCHANGED << kpiValues, dataTable, alertsBox, chart >>]_vars

\* C7: while monitoring is on every tick of the real-time timer issues a
\* chart-data request and an update-filters request; once monitoring has
\* been turned off the timer is gone, so no tick occurs until it is turned
\* on again.
C7_RealTimeTicks ==
    /\ [](isMonitoring <=> (ActiveOf(timers, "realTime") # {}))
    /\ [](isMonitoring <=> (realTimeInterval # Null))
    /\ [][RealTimeTick =>
            /\ isMonitoring
            /\ Len(inflight') = Len(inflight) + 2
            /\ inflight'[Len(inflight) + 1].kind = "chart"
            /\ inflight'[Len(inflight) + 2].kind = "filters"]_vars

\* a tick has issued its two requests
C7_Witness ==
    /\ isMonitoring
    /\ Len(inflight) = 2
    /\ inflight[1].kind = "chart"
    /\ inflight[2].kind = "filters"

\* C8 (as stated): at most one auto-refresh timer is active, and it is
\* inactive exactly when the pause button shows "Resume Detection".
C8_InactiveIffResumeLabel ==
    /\ Cardinality(ActiveOf(timers, "refresh")) <= 1
    /\ (ActiveOf(timers, "refresh") = {}) <=> (pauseBtn.html = "Resume Detection")

\* the label the pause button carries, or will carry again once the
\* loading-state handler restores it
PauseButtonLabel == IF pauseBtn.disabled THEN pauseBtn.saved ELSE pauseBtn.html

\* C8 (amended): the auto-refresh timer runs after construction; at most
\* one is ever active; it is inactive exactly when the pause button's label
\* is "Resume Detection", counting for a button in its "Loading..." state
\* the label saved for restoring; and a 60-second tick happens only while
\* it is active.
C8_AutoRefreshTimer ==
    /\ ActiveOf(timers, "refresh") # {}
    /\ [](Cardinality(ActiveOf(timers, "refresh")) <= 1)
    /\ []((ActiveOf(timers, "refresh") = {}) <=> (PauseButtonLabel = "Resume Detection"))
    /\ []((ActiveOf(timers, "refresh") = {}) <=> (refreshInterval = Null))
    /\ [][AutoRefreshTick => PauseButtonLabel # "Resume Detection"]_vars

\* detection is paused and the button has been restored
C8_Witness ==
    /\ ~pauseBtn.disabled
    /\ pauseBtn.html = "Resume Detection"
    /\ ActiveOf(timers, "refresh") = {}
    /\ refreshInterval = Null

\* C9 (as stated): a successful update-filters response whose kpis is an
\* empty object leaves the tiles showing "0", "0%", "0", "0%".
C9_ZeroTiles ==
    [][\A i \in Slots : \A data \in FilterBodies :
          (/\ FiltersSettleBody(i, data)
           /\ "error" \notin DOMAIN data
           /\ "kpis" \in DOMAIN data
           /\ DOMAIN data.kpis = {}) =>
              kpiValues' = << "0", "0%", "0", "0%" >>]_vars

\* C9 (amended): such a response leaves the tiles showing "0", "0%",
\* "Rp0", "0%": the average-price tile keeps its "Rp" prefix.
C9_ZeroTilesRp ==
    [][\A i \in Slots : \A data \in FilterBodies :
          (/\ FiltersSettleBody(i, data)
           /\ "error" \notin DOMAIN data
           /\ "kpis" \in DOMAIN data
           /\ DOMAIN data.kpis = {}) =>
              kpiValues' = << "0", "0%", "Rp0", "0%" >>]_vars

\* the tiles after an empty kpis object, next to the "no data" table it
\* came with
C9_Witness ==
    /\ kpiValues = << "0", "0%", "Rp0", "0%" >>
    /\ dataTable = << NoDataRow >>

\* C10: clicking "Last 24h" sets the end-date control to today's calendar
\* date and the start-date control to the date of the previous day, at
\* every time of day and every local-time offset from UTC.
C10_Last24hDates ==
    [][HandleTimeFilter("Last 24h") =>
          /\ endDate' = LocalDay(now, tz)
          /\ startDate' = LocalDay(now, tz) - 1]_vars

\* C11: stopping monitoring or pausing detection only clears the timer: a
\* call in flight at that moment stays in flight, and when it settles with
\* both timers stopped its response is applied to the chart, the KPI tiles,
\* the table and the alert list as usual.
C11_StopKeepsInFlight ==
    [][/\ ((isMonitoring /\ ~isMonitoring')
             \/ (ActiveOf(timers, "refresh") # {} /\ ActiveOf(timers', "refresh") = {}))
          => inflight' = inflight
       /\ (ActiveOf(timers, "realTime") = {} /\ ActiveOf(timers, "refresh") = {}) =>
            \A i \in Slots :
               /\ \A data \in ChartBodies :
                     (ChartSettleBody(i, data) /\ "error" \notin DOMAIN data) =>
                        /\ chart'.labels =
                              (IF "labels" \in DOMAIN data THEN data.labels ELSE <<>>)
                        /\ chart'.actual =
                              (IF "actual" \in DOMAIN data THEN data.actual ELSE <<>>)
               /\ \A data \in FilterBodies :
                     (FiltersSettleBody(i, data) /\ "error" \notin DOMAIN data) =>
                        /\ dataTable' = UpdateDataTable(data)
                        /\ alertsBox' = UpdateAlerts(data)
                        /\ "kpis" \in DOMAIN data =>
                              kpiValues' = UpdateKPIs(kpiValues, data)]_vars

\* both timers are stopped while an update-filters call, which only a tick
\* of the real-time timer can have issued, is still in flight
C11_Witness ==
    /\ ~isMonitoring
    /\ ActiveOf(timers, "realTime") = {}
    /\ ActiveOf(timers, "refresh") = {}
    /\ \E i \in 1..Len(inflight) : inflight[i].kind = "filters"

\* the attached toast is the element of generation g
ToastIs(g) == toast # <<>> /\ toast[1].gen = g

\* exactly one toast of category cat has been shown and is attached
OneToast(cat) ==
    /\ shown' = << cat >>
    /\ Len(toast') = 1
    /\ toast'[1].cat = cat

\* C12 (as stated): every network call that completes, chart-data or
\* update-filters, success or failure, shows a toast, and every toast shown
\* is eventually removed.
C12_EveryCallToasts ==
    /\ [][\A i \in Slots :
            /\ \A how \in Failures :
                  (ChartSettleFail(i, how) \/ FiltersSettleFail(i, how)) => shown' # <<>>
            /\ \A data \in ChartBodies : ChartSettleBody(i, data) => shown' # <<>>
            /\ \A data \in FilterBodies : FiltersSettleBody(i, data) => shown' # <<>>]_vars
    /\ (ToastIs(0) ~> ~ToastIs(0))
    /\ (ToastIs(1) ~> ~ToastIs(1))

\* C12 (amended): every update-filters call that completes shows exactly one
\* toast (success category when the body is taken as a success, error
\* category otherwise), and so does every chart-data call that fails or
\* whose body carries a non-empty error; a chart-data call whose body is
\* taken as a success shows no toast and leaves the attached one alone.
\* Every toast shown is eventually removed, by its timeout or by the toast
\* that replaces it.
C12_FailuresAndFiltersToast ==
    /\ [][\A i \in Slots :
            /\ \A how \in Failures :
                  (ChartSettleFail(i, how) \/ FiltersSettleFail(i, how)) =>
                      OneToast("danger")
            /\ \A data \in ChartBodies :
                  ChartSettleBody(i, data) =>
                      IF "error" \in DOMAIN data /\ data.error # ""
                      THEN OneToast("danger")
                      ELSE shown' = <<>> /\ toast' = toast
            /\ \A data \in FilterBodies :
                  FiltersSettleBody(i, data) =>
                      IF "error" \in DOMAIN data /\ data.error # ""
                      THEN OneToast("danger")
                      ELSE OneToast("success")]_vars
    /\ (ToastIs(0) ~> ~ToastIs(0))
    /\ (ToastIs(1) ~> ~ToastIs(1))

\* the error toast of a call that has just settled replaced an earlier
\* toast, whose timeout is still scheduled
C12_Witness ==
    /\ shown = << "danger" >>
    /\ Len(toast) = 1
    /\ toast[1].cat = "danger"
    /\ toast[1].gen = 1
    /\ staleTimers = 1

\* the contents the KPI tiles can have when a response arrives
PriorTiles ==
    { InitialTiles,
      << "12", "5%", "Rp32.500", "97%" >>,
      << "0", "0%", "Rp0", "0%" >> }

\* C13 (as stated): after a successful update-filters response the tiles,
\* the table and the alert list are what that response alone determines:
\* from every prior content the same response gives the same content, also
\* when the response omits kpis, recent_data or alerts.
C13_ResponseAlone ==
    /\ [](kpiValues \in PriorTiles)
    /\ [][\A i \in Slots : \A data \in FilterBodies :
            (FiltersSettleBody(i, data) /\ "error" \notin DOMAIN data) =>
                /\ \A t \in PriorTiles : kpiValues' = UpdateKPIs(t, data)
                /\ dataTable' = UpdateDataTable(data)
                /\ alertsBox' = UpdateAlerts(data)]_vars

\* C13 (amended): the table and the alert list are what the response alone
\* determines (the "no data" row and the "no alerts" block when the field is
\* omitted or empty), and so are the tiles when the response carries a kpis
\* object; when kpis is omitted the tiles keep their previous content.
C13_TilesSurviveWithoutKpis ==
    /\ [](kpiValues \in PriorTiles)
    /\ [][\A i \in Slots : \A data \in FilterBodies :
            (FiltersSettleBody(i, data) /\ "error" \notin DOMAIN data) =>
                /\ IF "kpis" \in DOMAIN data
                   THEN \A t \in PriorTiles : kpiValues' = UpdateKPIs(t, data)
                   ELSE kpiValues' = kpiValues
                /\ dataTable' =
                      (IF "recent_data" \in DOMAIN data /\ data.recent_data # <<>>
                       THEN [k \in 1..Len(data.recent_data) |->
                                TableRow(data.recent_data[k])]
                       ELSE << NoDataRow >>)
                /\ alertsBox' =
                      (IF "alerts" \in DOMAIN data /\ data.alerts # <<>>
                       THEN [k \in 1..Len(data.alerts) |-> AlertItem(data.alerts[k])]
                       ELSE << NoAlerts >>)]_vars

\* a response without kpis and alerts has been rendered over the tiles of
\* an earlier response
C13_Witness ==
    /\ kpiValues = << "12", "5%", "Rp32.500", "97%" >>
    /\ dataTable = << << "d2", "N/A", "RpN/A", "Normal" >> >>
    /\ alertsBox = << NoAlerts >>

\* the query q carries exactly what the control values p, s, e call for
BuiltFrom(q, p, s, e) ==
    /\ DOMAIN q \subseteq {"province", "start_date", "end_date"}
    /\ "province" \in DOMAIN q <=> (p # "" /\ p # "all")
    /\ "province" \in DOMAIN q => q.province = p
    /\ "start_date" \in DOMAIN q <=> s # NoDate
    /\ "start_date" \in DOMAIN q => q.start_date = s
    /\ "end_date" \in DOMAIN q <=> e # NoDate
    /\ "end_date" \in DOMAIN q => q.end_date = e

\* C14: every chart-data and update-filters request is built from the
\* values the three controls hold when it is issued: province only when
\* non-empty and not "all", start_date and end_date only when non-empty; and
\* for the same control values both endpoints get the same parameters.
C14_ParamsFromControls ==
    [][/\ \A k \in (Len(inflight) + 1)..Len(inflight') :
             BuiltFrom(inflight'[k].params, province, startDate, endDate)
       /\ \A p \in Provinces : \A s \in ControlValues("startDate") :
             \A e \in ControlValues("endDate") :
                ChartParams(p, s, e) = FilterParams(p, s, e)]_vars

\* after the user has emptied the start date and picked a province, a
\* chart-data and an update-filters request went out with province and
\* end_date only
C14_Witness ==
    /\ province = "Aceh"
    /\ startDate = NoDate
    /\ Len(inflight) = 2
    /\ inflight[2].kind = "filters"
    /\ DOMAIN inflight[2].params = {"province", "end_date"}
    /\ inflight[2].params.province = "Aceh"

\* C15: the two toggles are independent: isMonitoring is true exactly when
\* a real-time timer is active, and at most one is; a step that flips
\* isMonitoring leaves the auto-refresh timer and its handle alone; a click
\* on the pause button leaves isMonitoring, the real-time timer and its
\* handle alone.
C15_IndependentToggles ==
    /\ [](isMonitoring <=> Cardinality(ActiveOf(timers, "realTime")) = 1)
    /\ [](Cardinality(ActiveOf(timers, "realTime")) <= 1)
    /\ [][ToggleMonitoring =>
            /\ ActiveOf(timers', "refresh") = ActiveOf(timers, "refresh")
            /\ refreshInterval' = refreshInterval]_vars
    /\ [][PauseClick =>
            /\ isMonitoring' = isMonitoring
            /\ ActiveOf(timers', "realTime") = ActiveOf(timers, "realTime")
            /\ realTimeInterval' = realTimeInterval]_vars

\* monitoring runs while detection is paused
C15_Witness ==
    /\ isMonitoring
    /\ Cardinality(ActiveOf(timers, "realTime")) = 1
    /\ ActiveOf(timers, "refresh") = {}
    /\ PauseButtonLabel = "Resume Detection"

\* the chart reload of updateFilters has been issued by this step
ReloadIssued(i) ==
    inflight' = Append(RemoveAt(inflight, i), ChartReq(province, startDate, endDate))

C17_PresetBadges ==
    [][\A b \in Badges : HandleTimeFilter(b) =>
          /\ activeBadge' = b
          /\ debounceTimers' = debounceTimers
          /\ UNCHANGED << chart, chartLoading, kpiValues, dataTable, alertsBox,
                          province, timers, toast >>
          /\ IF b \in {"Last Hour", "Last 24h"}
             THEN /\ startDate' # NoDate
                  /\ endDate' # NoDate
                  /\ endDate' = IsoDate(now)
                  /\ Len(inflight') = Len(inflight) + 1
                  /\ SubSeq(inflight', 1, Len(inflight)) = inflight
                  /\ inflight'[Len(inflight')].kind = "filters"
                  /\ BuiltFrom(inflight'[Len(inflight')].params,
                               province, startDate', endDate')
             ELSE /\ startDate' = startDate
                  /\ endDate' = endDate
                  /\ inflight' = inflight]_vars

\* the one request of a preset click is in flight, nothing is scheduled,
\* and a later click on Custom has moved the highlight only
C17_Witness ==
    /\ activeBadge = "Custom"
    /\ Len(inflight) = 2
    /\ inflight[2].kind = "filters"
    /\ inflight[2].params.end_date = endDate
    /\ debounceTimers = <<>>

\* C18: construction leaves exactly one chart-data request in flight, built
\* from the control values of the served page and not from the default
\* range that setDefaultDates writes afterwards; every request issued
\* later is built from the values the controls then hold, the default
\* range included.
C18_FirstRequestBeforeDefaults ==
    /\ Len(inflight) = 1
    /\ inflight[1].kind = "chart"
    /\ BuiltFrom(inflight[1].params, TemplateProvince, TemplateDate, TemplateDate)
    /\ startDate # TemplateDate
    /\ endDate # TemplateDate
    /\ endDate = IsoDate(now)
    /\ startDate = endDate - DefaultRange
    /\ [][\A k \in (Len(inflight) + 1)..Len(inflight') :
            /\ BuiltFrom(inflight'[k].params, province, startDate, endDate)
            /\ inflight'[k].params.start_date = endDate - DefaultRange]_vars

\* the first request, without dates, is still in flight next to a later
\* one that carries the default range
C18_Witness ==
    /\ Len(inflight) = 2
    /\ inflight[1].kind = "chart"
    /\ DOMAIN inflight[1].params = {}
    /\ inflight[2].kind = "chart"
    /\ DOMAIN inflight[2].params = {"start_date", "end_date"}
    /\ inflight[2].params.start_date = startDate
    /\ startDate = endDate - DefaultRange

\* C19: at most one toast is attached to the page at any time, and the
\* timeout of a toast that has been replaced removes nothing: the toast
\* attached when it fires stays.
C19_OneToast ==
    /\ [](Len(toast) <= 1)
    /\ [][StaleTimerFire => (toast # <<>> => toast' = toast)]_vars
    /\ [][Len(toast') < Len(toast) => (DismissToast /\ staleTimers' = staleTimers)]_vars

\* a toast is attached while the timeout of the one it replaced is pending
C19_Witness ==
    /\ Len(toast) = 1
    /\ staleTimers > 0
    /\ shown = <<>>

\* C20: whenever no chart-data request is in flight the chart container
\* carries no loading marker, and the step in which a chart-data call
\* completes (success, error body or exception) clears it even while other
\* chart-data calls are still in flight.
C20_MarkerCleared ==
    /\ []((\A k \in 1..Len(inflight) : inflight[k].kind # "chart") => ~chartLoading)
    /\ [][\A i \in Slots :
            /\ \A how \in Failures : ChartSettleFail(i, how) => ~chartLoading'
            /\ \A data \in ChartBodies : ChartSettleBody(i, data) => ~chartLoading']_vars

\* the marker is off although a chart-data call is still in flight
C20_Witness ==
    /\ ~chartLoading
    /\ \E k \in 1..Len(inflight) : inflight[k].kind = "chart"

\* C21: a tick of the real-time timer issues one chart-data request and
\* one update-filters request in the same step; when that update-filters
\* call succeeds one more chart-data request is issued, and when it fails
\* (transport failure, non-success status, unparsable body, or a response
\* carrying an `error` field) none is, so the tick results in exactly one.
C21_ChartRequestsPerTick ==
    [][/\ RealTimeTick =>
             /\ Len(inflight') = Len(inflight) + 2
             /\ SubSeq(inflight', 1, Len(inflight)) = inflight
             /\ inflight'[Len(inflight) + 1].kind = "chart"
             /\ inflight'[Len(inflight) + 2].kind = "filters"
       /\ \A i \in Slots :
             /\ \A how \in Failures :
                   FiltersSettleFail(i, how) => inflight' = RemoveAt(inflight, i)
             /\ \A data \in FilterBodies :
                   FiltersSettleBody(i, data) =>
                      IF "error" \in DOMAIN data
                      THEN inflight' = RemoveAt(inflight, i)
                      ELSE inflight' = Append(RemoveAt(inflight, i),
                                              ChartReq(province, startDate, endDate))]_vars

====
